---- MODULE Spec2Model ----
(***************************************************************************)
(* Model of the Pomodoro timer (src/src/Timer.tsx) and of the step-list     *)
(* editor StepSettings (src/unnamed/part_000).                              *)
(*                                                                          *)
(* Timer: the React state (steps, seconds, isActive, isDone, title,         *)
(* bgColor), the one-second interval armed by the [isActive] effect with    *)
(* the steps its closure captured, and the snapshot captured by the keydown *)
(* handler that the [isActive, steps] effect registers.  Every action is a  *)
(* whole event: the handler, the batched state update, the render and the   *)
(* effects that run after the commit.                                       *)
(***************************************************************************)
EXTENDS Integers, Sequences, FiniteSets, TLC

VARIABLES
    steps,          \* Timer.tsx:27  useState(initialSteps)
    seconds,        \* Timer.tsx:28  useState(initialSteps[0].duration)
    isActive,       \* Timer.tsx:30
    isDone,         \* Timer.tsx:31
    title,          \* Timer.tsx:33
    bgColor,        \* Timer.tsx:34
    intervalArmed,  \* Timer.tsx:39  an interval created by the effect is live
    intervalSteps,  \* Timer.tsx:39  `steps` as captured by that interval's closure
    liveIntervals,  \* Timer.tsx:39  setInterval timers created and not yet cleared
    mounted,        \* Timer.tsx:26  the component is mounted
    keySteps,       \* Timer.tsx:57  `steps` as captured by the registered handleKeyDown
    keyIsActive,    \* Timer.tsx:57  `isActive` as captured by handleKeyDown
    keyIsDone,      \* Timer.tsx:57  `isDone` as captured by handleKeyDown
    threw,          \* a TypeError (property read of undefined) was raised
    lastInput,      \* the input event handled last
    user,           \* what the person at the keyboard is doing (scenario)
    propsSteps,         \* part_000:24  the `steps` prop, the owner's list
    currentSteps,       \* part_000:32
    draggedItemId,      \* part_000:34
    dragOverItemId,     \* part_000:35
    indicatorElementRef,\* part_000:37  the element (by step id) or Null
    indicatorClass,     \* class an item element carries, per step id
    opacity,            \* the opacity an item element shows ("1" when its style sets none), per step id
    pendingDim,         \* part_000:64  setTimeout callbacks not yet run
    dragPhase,          \* the browser's drag-and-drop operation
    dragSource,         \* the step whose handle the browser is dragging
    nextId,             \* the owner's next fresh step id
    notified,           \* the owner callback the last event invoked
    alerted,            \* part_000:45  the last event raised the warning
    localWrite,         \* part_000:149 what the last handler passed to setCurrentSteps
    lastEvent,          \* the editor event handled last
    dtSeconds,          \* Timer.tsx:140  the argument of displayTime
    dtText              \* Timer.tsx:143  the string displayTime returned for it

timerVars == <<steps, seconds, isActive, isDone, title, bgColor, intervalArmed,
               intervalSteps, liveIntervals, mounted, keySteps, keyIsActive, keyIsDone, threw,
               lastInput, user>>

sessionVars == <<steps, seconds, isActive, isDone, title, bgColor>>

editorVars == <<propsSteps, currentSteps, draggedItemId, dragOverItemId,
                indicatorElementRef, indicatorClass, opacity, pendingDim,
                dragPhase, dragSource, nextId, notified, alerted, localWrite,
                lastEvent>>

displayVars == <<dtSeconds, dtText>>

vars == <<timerVars, editorVars, displayVars>>

-----------------------------------------------------------------------------
(* Timer.tsx:11-24 *)

WORK_STEP == [name |-> "work", duration |-> 15]

SHORT_BREAK_STEP == [name |-> "short break", duration |-> 3]

LONG_BREAK_STEP == [name |-> "long break", duration |-> 6]

WithId(step, id) == [name |-> step.name, duration |-> step.duration, id |-> id]

initialSteps ==
    << WithId(WORK_STEP, 1), WithId(SHORT_BREAK_STEP, 2),
       WithId(WORK_STEP, 3), WithId(SHORT_BREAK_STEP, 4),
       WithId(WORK_STEP, 5), WithId(SHORT_BREAK_STEP, 6),
       WithId(WORK_STEP, 7), WithId(LONG_BREAK_STEP, 8) >>

-----------------------------------------------------------------------------
(* displayTime, Timer.tsx:140-144 *)

Digit(d) == <<"0", "1", "2", "3", "4", "5", "6", "7", "8", "9">>[d + 1]

RECURSIVE NumStr(_)
NumStr(n) == IF n < 10 THEN Digit(n) ELSE NumStr(n \div 10) \o Digit(n % 10)

(* displayTime padding the minutes only below one minute *)
displayTime_padsBelow60(s) ==
    LET mm == (IF s < 60 THEN "0" ELSE "") \o NumStr(s \div 60)
        ss == (IF (s % 60) < 10 THEN "0" ELSE "") \o NumStr(s % 60)
    IN  mm \o ":" \o ss

displayTime(s) ==
    LET mm == (IF s < 600 THEN "0" ELSE "") \o NumStr(s \div 60)
        ss == (IF (s % 60) < 10 THEN "0" ELSE "") \o NumStr(s % 60)
    IN  mm \o ":" \o ss

-----------------------------------------------------------------------------
(* The React state as one value; handlers map a state to the next one.      *)
(* `cl` is the closure a handler runs in: the steps / isActive / isDone of   *)
(* the render that created it.                                               *)

Session ==
    [steps |-> steps, seconds |-> seconds, isActive |-> isActive,
     isDone |-> isDone, title |-> title, bgColor |-> bgColor, threw |-> FALSE,
     cleared |-> FALSE]

RenderClosure == [steps |-> steps, isActive |-> isActive, isDone |-> isDone]

KeyClosure == [steps |-> keySteps, isActive |-> keyIsActive, isDone |-> keyIsDone]

IntervalClosure == [steps |-> intervalSteps, isActive |-> TRUE, isDone |-> isDone]

(* steps.slice(1) *)
Slice1(s) == IF Len(s) = 0 THEN <<>> ELSE Tail(s)

(* Timer.tsx:100-114 *)
nextBgColor(cl) ==
    IF Len(cl.steps) <= 1 THEN "white"
    ELSE IF cl.steps[2].name = "work" THEN "red"
    ELSE IF cl.steps[2].name = "short break" THEN "lightblue"
    ELSE IF cl.steps[2].name = "long break" THEN "blue"
    ELSE "white"

(* nextStep with the value the interval updater returns (0) surviving the   *)
(* advance.                                                                  *)
nextStep_zeroSeconds(cl, st) ==
    IF Len(cl.steps) > 1
    THEN [st EXCEPT !.isActive = FALSE,
                    !.steps = Slice1(cl.steps),
                    !.seconds = 0,
                    !.title = "Start " \o cl.steps[2].name,
                    !.bgColor = nextBgColor(cl)]
    ELSE [st EXCEPT !.isActive = FALSE,
                    !.steps = Slice1(cl.steps),
                    !.seconds = 0,
                    !.isDone = TRUE,
                    !.title = "All done",
                    !.bgColor = nextBgColor(cl)]

(* nextStep testing steps.length > 0: steps[1] of a one-element list is     *)
(* undefined and reading its duration throws after the first two setters.   *)
nextStep_offByOne(cl, st) ==
    IF Len(cl.steps) > 1
    THEN [st EXCEPT !.isActive = FALSE,
                    !.steps = Slice1(cl.steps),
                    !.seconds = cl.steps[2].duration,
                    !.title = "Start " \o cl.steps[2].name,
                    !.bgColor = nextBgColor(cl)]
    ELSE IF Len(cl.steps) = 1
    THEN [st EXCEPT !.isActive = FALSE,
                    !.steps = Slice1(cl.steps),
                    !.threw = TRUE]
    ELSE [st EXCEPT !.isActive = FALSE,
                    !.steps = Slice1(cl.steps),
                    !.seconds = 0,
                    !.isDone = TRUE,
                    !.title = "All done",
                    !.bgColor = nextBgColor(cl)]

(* nextStep taking the duration of the step it consumes (steps[0]) *)
nextStep_consumedDuration(cl, st) ==
    IF Len(cl.steps) > 1
    THEN [st EXCEPT !.isActive = FALSE,
                    !.steps = Slice1(cl.steps),
                    !.seconds = cl.steps[1].duration,
                    !.title = "Start " \o cl.steps[2].name,
                    !.bgColor = nextBgColor(cl)]
    ELSE [st EXCEPT !.isActive = FALSE,
                    !.steps = Slice1(cl.steps),
                    !.seconds = 0,
                    !.isDone = TRUE,
                    !.title = "All done",
                    !.bgColor = nextBgColor(cl)]

(* nextStep without the setIsActive(false) *)
nextStep_keepsRunning(cl, st) ==
    IF Len(cl.steps) > 1
    THEN [st EXCEPT !.steps = Slice1(cl.steps),
                    !.seconds = cl.steps[2].duration,
                    !.title = "Start " \o cl.steps[2].name,
                    !.bgColor = nextBgColor(cl)]
    ELSE [st EXCEPT !.steps = Slice1(cl.steps),
                    !.seconds = 0,
                    !.isDone = TRUE,
                    !.title = "All done",
                    !.bgColor = nextBgColor(cl)]

(* Timer.tsx:84-115 *)
nextStep(cl, st) ==
    IF Len(cl.steps) > 1
    THEN [st EXCEPT !.isActive = FALSE,
                    !.steps = Slice1(cl.steps),
                    !.seconds = cl.steps[2].duration,
                    !.title = "Start " \o cl.steps[2].name,
                    !.bgColor = nextBgColor(cl)]
    ELSE [st EXCEPT !.isActive = FALSE,
                    !.steps = Slice1(cl.steps),
                    !.seconds = 0,
                    !.isDone = TRUE,
                    !.title = "All done",
                    !.bgColor = nextBgColor(cl)]

(* Timer.tsx:117-119 *)
handleStartStop(cl, st) == [st EXCEPT !.isActive = ~cl.isActive]

(* handleRedo without the setIsActive(false) *)
handleRedo_keepsRunning(cl, st) ==
    IF Len(cl.steps) = 0
    THEN [st EXCEPT !.threw = TRUE]
    ELSE [st EXCEPT !.seconds = cl.steps[1].duration,
                    !.title = "Start " \o cl.steps[1].name]

(* Timer.tsx:121-125; steps[0].duration of an empty list is a TypeError *)
handleRedo(cl, st) ==
    IF Len(cl.steps) = 0
    THEN [st EXCEPT !.threw = TRUE]
    ELSE [st EXCEPT !.seconds = cl.steps[1].duration,
                    !.title = "Start " \o cl.steps[1].name,
                    !.isActive = FALSE]

(* Timer.tsx:127-129 *)
handleSkip(cl, st) == nextStep(cl, st)

(* handleRestart without the setSeconds *)
handleRestart_keepsSeconds(st) ==
    [st EXCEPT !.steps = initialSteps,
               !.title = "Start " \o initialSteps[1].name,
               !.isActive = FALSE,
               !.isDone = FALSE]

(* handleRestart without the setIsDone(false) *)
handleRestart_keepsDone(st) ==
    [st EXCEPT !.steps = initialSteps,
               !.seconds = initialSteps[1].duration,
               !.title = "Start " \o initialSteps[1].name,
               !.isActive = FALSE]

(* Timer.tsx:131-138 *)
handleRestart(st) ==
    [st EXCEPT !.steps = initialSteps,
               !.seconds = initialSteps[1].duration,
               !.title = "Start " \o initialSteps[1].name,
               !.isActive = FALSE,
               !.isDone = FALSE]

(* Timer.tsx:57-70 *)
handleKeyDown(code, cl, st) ==
    LET gated ==
            IF ~cl.isDone
            THEN IF code = "Space" THEN handleStartStop(cl, st)
                 ELSE IF code = "ArrowLeft" THEN handleRedo(cl, st)
                 ELSE IF code = "ArrowRight" THEN handleSkip(cl, st)
                 ELSE st
            ELSE st
    IN  IF code = "ArrowUp" THEN handleRestart(gated) ELSE gated

(* The updater labelling the tick with the name of the step after the       *)
(* current one.                                                              *)
tick_nextStepName(cl, st) ==
    IF st.seconds <= 1
    THEN nextStep(cl, [st EXCEPT !.seconds = 0, !.cleared = TRUE])
    ELSE IF Len(cl.steps) = 0
    THEN [st EXCEPT !.threw = TRUE]
    ELSE [st EXCEPT !.title = displayTime(st.seconds - 1) \o " - " \o
                                  cl.steps[IF Len(cl.steps) > 1 THEN 2 ELSE 1].name,
                    !.seconds = st.seconds - 1]

(* The updater advancing only at s <= 0 *)
tick_advancesAtZero(cl, st) ==
    IF st.seconds <= 0
    THEN nextStep(cl, [st EXCEPT !.seconds = 0, !.cleared = TRUE])
    ELSE IF Len(cl.steps) = 0
    THEN [st EXCEPT !.threw = TRUE]
    ELSE [st EXCEPT !.title = displayTime(st.seconds - 1) \o " - " \o cl.steps[1].name,
                    !.seconds = st.seconds - 1]

(* Timer.tsx:40-50, the updater of the interval callback.  It runs while    *)
(* the component renders; the setState calls nextStep makes from inside it  *)
(* are render-phase updates, applied after the value the updater returns,   *)
(* so the seconds nextStep sets replace the returned 0.  `cleared` records   *)
(* the clearInterval(interval) of line 44.                                   *)
tick(cl, st) ==
    IF st.seconds <= 1
    THEN nextStep(cl, [st EXCEPT !.seconds = 0, !.cleared = TRUE])
    ELSE IF Len(cl.steps) = 0
    THEN [st EXCEPT !.threw = TRUE]
    ELSE [st EXCEPT !.title = displayTime(st.seconds - 1) \o " - " \o cl.steps[1].name,
                    !.seconds = st.seconds - 1]

(* Timer.tsx:148: the heading reads steps[0].name unless isDone *)
RenderThrows(st) == ~st.isDone /\ Len(st.steps) = 0

-----------------------------------------------------------------------------
(* Effects after the commit.                                                *)

(* The interval effect without its cleanup function *)
IntervalEffect_noCleanup(n) ==
    LET own == intervalArmed /\ ~n.cleared
        after == liveIntervals - (IF intervalArmed /\ n.cleared THEN 1 ELSE 0)
    IN  IF n.isActive # isActive
        THEN /\ intervalArmed' = (n.isActive /\ n.seconds > 0)
             /\ intervalSteps' = IF n.isActive /\ n.seconds > 0 THEN n.steps ELSE <<>>
             /\ liveIntervals' = after + (IF n.isActive /\ n.seconds > 0 THEN 1 ELSE 0)
        ELSE /\ intervalArmed' = own
             /\ intervalSteps' = IF own THEN intervalSteps ELSE <<>>
             /\ liveIntervals' = after

(* Timer.tsx:36-54, deps [isActive]: cleanup clears the interval this effect *)
(* created (clearing a cleared one does nothing), and a new one is created   *)
(* when isActive and seconds > 0.  Without a change of isActive only the     *)
(* callback's own clearInterval (line 44) acts.                              *)
IntervalEffect(n) ==
    LET own == intervalArmed /\ ~n.cleared
        after == liveIntervals - (IF intervalArmed /\ n.cleared THEN 1 ELSE 0)
    IN  IF n.isActive # isActive
        THEN /\ intervalArmed' = (n.isActive /\ n.seconds > 0)
             /\ intervalSteps' = IF n.isActive /\ n.seconds > 0 THEN n.steps ELSE <<>>
             /\ liveIntervals' = (after - (IF own THEN 1 ELSE 0))
                                    + (IF n.isActive /\ n.seconds > 0 THEN 1 ELSE 0)
        ELSE /\ intervalArmed' = own
             /\ intervalSteps' = IF own THEN intervalSteps ELSE <<>>
             /\ liveIntervals' = after

(* The keydown effect with deps [isActive] only *)
KeyEffect_missingStepsDep(n) ==
    IF n.isActive # isActive
    THEN /\ keySteps' = n.steps
         /\ keyIsActive' = n.isActive
         /\ keyIsDone' = n.isDone
    ELSE UNCHANGED <<keySteps, keyIsActive, keyIsDone>>

(* Timer.tsx:56-74, deps [isActive, steps]: the handler is registered again  *)
(* with the values of the new render.  A new steps array always differs in   *)
(* length from the one it replaces, so comparing values decides identity.    *)
KeyEffect(n) ==
    IF n.isActive # isActive \/ n.steps # steps
    THEN /\ keySteps' = n.steps
         /\ keyIsActive' = n.isActive
         /\ keyIsDone' = n.isDone
    ELSE UNCHANGED <<keySteps, keyIsActive, keyIsDone>>

(* State update, render, effects. *)
Commit(n, input) ==
    /\ steps' = n.steps
    /\ seconds' = n.seconds
    /\ isActive' = n.isActive
    /\ isDone' = n.isDone
    /\ title' = n.title
    /\ bgColor' = n.bgColor
    /\ threw' = (n.threw \/ RenderThrows(n))
    /\ IntervalEffect(n)
    /\ KeyEffect(n)
    /\ lastInput' = input
    /\ UNCHANGED mounted
    /\ UNCHANGED <<editorVars, displayVars>>

-----------------------------------------------------------------------------
(***************************************************************************)
(* StepSettings (src/unnamed/part_000).  An item element is identified by   *)
(* the id of the step it renders (key={step.id}); indexes are 0-based as in  *)
(* the source.                                                               *)
(***************************************************************************)

MaxId == 3

DurationChoices == {10}

Null == 0

NaN == 0 - 1

StepTypes == {"work", "break"}

StepIds(list) == {list[i].id : i \in 1..Len(list)}

(* Array.prototype.findIndex(step => step.id === id) *)
findIndex(list, id) ==
    IF \E i \in 1..Len(list) : list[i].id = id
    THEN (CHOOSE i \in 1..Len(list) :
              /\ list[i].id = id
              /\ \A j \in 1..(i - 1) : list[j].id # id) - 1
    ELSE 0 - 1

(* The start index Array.prototype.splice works from. *)
SpliceStart(len, start) ==
    IF start < 0
    THEN (IF len + start < 0 THEN 0 ELSE len + start)
    ELSE (IF start > len THEN len ELSE start)

(* items.splice(start, 1): the array that is left. *)
SpliceOut(items, start) ==
    LET k == SpliceStart(Len(items), start)
    IN  [i \in 1..(Len(items) - (IF k < Len(items) THEN 1 ELSE 0)) |->
            IF i <= k THEN items[i] ELSE items[i + 1]]

(* items.splice(start, 1): the removed elements. *)
SpliceRemoved(items, start) ==
    LET k == SpliceStart(Len(items), start)
    IN  IF k < Len(items) THEN <<items[k + 1]>> ELSE <<>>

(* items.splice(start, 0, item) *)
SpliceIn(items, start, item) ==
    LET k == SpliceStart(Len(items), start)
    IN  [i \in 1..(Len(items) + 1) |->
            IF i <= k THEN items[i]
            ELSE IF i = k + 1 THEN item
            ELSE items[i - 1]]

(* part_000:212, id={`step-${step.id}`}, as a sequence of characters *)
RECURSIVE NumChars(_)
NumChars(n) ==
    IF n < 0 THEN <<"-">> \o NumChars(0 - n)
    ELSE IF n < 10 THEN <<Digit(n)>>
    ELSE NumChars(n \div 10) \o <<Digit(n % 10)>>

ElementId(id) == <<"s", "t", "e", "p", "-">> \o NumChars(id)

(* String.prototype.split('-')[1]: the text between the first and the       *)
(* second '-' (all the text after the first when there is no second).       *)
RECURSIVE UpToDash(_)
UpToDash(cs) ==
    IF cs = <<>> \/ Head(cs) = "-" THEN <<>> ELSE <<Head(cs)>> \o UpToDash(Tail(cs))

RECURSIVE AfterDash(_)
AfterDash(cs) ==
    IF cs = <<>> THEN <<>>
    ELSE IF Head(cs) = "-" THEN Tail(cs)
    ELSE AfterDash(Tail(cs))

SplitDash1(cs) == UpToDash(AfterDash(cs))

DigitValue(c) == CHOOSE d \in 0..9 : Digit(d) = c

IsDigit(c) == \E d \in 0..9 : Digit(d) = c

(* parseInt: the value of the leading digits, NaN when there are none. *)
RECURSIVE ParseDigits(_, _)
ParseDigits(cs, acc) ==
    IF cs = <<>> \/ ~IsDigit(Head(cs)) THEN acc
    ELSE ParseDigits(Tail(cs), 10 * acc + DigitValue(Head(cs)))

parseInt(cs) ==
    IF cs = <<>> \/ ~IsDigit(Head(cs)) THEN NaN ELSE ParseDigits(cs, 0)

(* The editor's mutable refs and DOM state as one value. *)
Dom ==
    [draggedItemId |-> draggedItemId, dragOverItemId |-> dragOverItemId,
     indicatorElementRef |-> indicatorElementRef,
     indicatorClass |-> indicatorClass, opacity |-> opacity]

(* part_000:73-87.  The referenced element may have left the document; the  *)
(* sweep reaches every element of the container.                             *)
clearIndicator(d) ==
    LET swept == [i \in 1..MaxId |-> "none"]
    IN  IF d.indicatorElementRef # Null
        THEN [d EXCEPT !.indicatorClass = swept,
                       !.indicatorElementRef = Null,
                       !.dragOverItemId = Null]
        ELSE [d EXCEPT !.indicatorClass = swept]

(* handleDragEnter placing the indicator without clearing the previous one *)
handleDragEnter_noClear(targetId, d) ==
    LET d1 == IF (d.draggedItemId = Null \/ targetId = d.draggedItemId)
                    /\ d.indicatorElementRef # Null
                    /\ d.indicatorElementRef # targetId
              THEN clearIndicator(d) ELSE d
    IN  IF targetId # d1.dragOverItemId
        THEN LET d2 == d1
                 draggedIndex == findIndex(currentSteps, d2.draggedItemId)
                 targetIndex == findIndex(currentSteps, targetId)
             IN  [d2 EXCEPT !.indicatorClass[targetId] =
                                 IF draggedIndex < targetIndex
                                 THEN "dragBelowIndicator"
                                 ELSE "dragAboveIndicator",
                            !.indicatorElementRef = targetId,
                            !.dragOverItemId = targetId]
        ELSE d1

(* part_000:91-113 *)
handleDragEnter(targetId, d) ==
    LET d1 == IF (d.draggedItemId = Null \/ targetId = d.draggedItemId)
                    /\ d.indicatorElementRef # Null
                    /\ d.indicatorElementRef # targetId
              THEN clearIndicator(d) ELSE d
    IN  IF targetId # d1.dragOverItemId
        THEN LET d2 == clearIndicator(d1)
                 draggedIndex == findIndex(currentSteps, d2.draggedItemId)
                 targetIndex == findIndex(currentSteps, targetId)
             IN  [d2 EXCEPT !.indicatorClass[targetId] =
                                 IF draggedIndex < targetIndex
                                 THEN "dragBelowIndicator"
                                 ELSE "dragAboveIndicator",
                            !.indicatorElementRef = targetId,
                            !.dragOverItemId = targetId]
        ELSE d1

(* part_000:129-132: querySelector finds the element only in the document *)
RestoreOpacity(d, sourceItemId) ==
    IF sourceItemId # Null /\ sourceItemId \in StepIds(currentSteps)
    THEN [d EXCEPT !.opacity[sourceItemId] = "1"]
    ELSE d

(* The cancel test without the same-item comparison *)
DropCancelled_sourceOnly(sourceItemId, targetItemId) ==
    sourceItemId = Null

(* part_000:135 *)
DropCancelled(sourceItemId, targetItemId) ==
    sourceItemId = Null \/ sourceItemId = targetItemId

(* The reorder with the target index looked up after the removal *)
Reordered_indexAfterRemoval(items, sourceItemId, targetItemId) ==
    LET draggedIndex == findIndex(items, sourceItemId)
        reorderedItem == SpliceRemoved(items, draggedIndex)[1]
        rest == SpliceOut(items, draggedIndex)
    IN  SpliceIn(rest, findIndex(rest, targetItemId), reorderedItem)

(* part_000:141-146 *)
Reordered(items, sourceItemId, targetItemId) ==
    LET draggedIndex == findIndex(items, sourceItemId)
        targetIndex == findIndex(items, targetItemId)
        reorderedItem == SpliceRemoved(items, draggedIndex)[1]
    IN  SpliceIn(SpliceOut(items, draggedIndex), targetIndex, reorderedItem)

(* The owner (not in this repository's sources): applies the notification   *)
(* to the authoritative list.                                                *)
OwnerApply(n) ==
    IF n.op = "onReorder" THEN n.arg
    ELSE IF n.op = "onRemove"
    THEN SelectSeq(propsSteps, LAMBDA st : st.id # n.arg)
    ELSE IF n.op = "onAdd"
    THEN Append(propsSteps, [id |-> nextId, type |-> n.arg, duration |-> 10])
    ELSE IF n.op = "onChangeDuration"
    THEN [i \in 1..Len(propsSteps) |->
            IF propsSteps[i].id = n.arg[1]
            THEN [propsSteps[i] EXCEPT !.duration = n.arg[2]]
            ELSE propsSteps[i]]
    ELSE propsSteps

NoNotification == [op |-> "none", arg |-> Null]

(* Elements of steps that left the list leave the document with their class *)
(* and style.                                                                *)
Rendered(f, list, blank) ==
    [i \in 1..MaxId |-> IF i \in StepIds(list) THEN f[i] ELSE blank]

(* The editor without the effect that copies the steps prop into the local  *)
(* list                                                                      *)
EditorCommit_noSync(d, local, n, warn, event) ==
    LET owner == OwnerApply(n)
        shown == IF local # <<>> THEN local[1] ELSE currentSteps
    IN  /\ propsSteps' = owner
        /\ currentSteps' = shown
        /\ draggedItemId' = d.draggedItemId
        /\ dragOverItemId' = d.dragOverItemId
        /\ indicatorElementRef' = d.indicatorElementRef
        /\ indicatorClass' = Rendered(d.indicatorClass, shown, "none")
        /\ opacity' = Rendered(d.opacity, shown, "1")
        /\ nextId' = IF n.op = "onAdd" THEN nextId + 1 ELSE nextId
        /\ notified' = n
        /\ alerted' = warn
        /\ localWrite' = local
        /\ lastEvent' = event
        /\ UNCHANGED <<timerVars, displayVars>>

(* One editor event: refs and DOM as the handler left them, the setState    *)
(* `local` (<<list>>, or <<>> when the handler made none), the owner callback, the *)
(* owner's new list coming back as the prop and the sync effect              *)
(* (part_000:171-173) that copies it when it changed.                        *)
EditorCommit(d, local, n, warn, event) ==
    LET owner == OwnerApply(n)
        shown == IF owner # propsSteps THEN owner
                 ELSE IF local # <<>> THEN local[1]
                 ELSE currentSteps
    IN  /\ propsSteps' = owner
        /\ currentSteps' = shown
        /\ draggedItemId' = d.draggedItemId
        /\ dragOverItemId' = d.dragOverItemId
        /\ indicatorElementRef' = d.indicatorElementRef
        /\ indicatorClass' = Rendered(d.indicatorClass, shown, "none")
        /\ opacity' = Rendered(d.opacity, shown, "1")
        /\ nextId' = IF n.op = "onAdd" THEN nextId + 1 ELSE nextId
        /\ notified' = n
        /\ alerted' = warn
        /\ localWrite' = local
        /\ lastEvent' = event
        /\ UNCHANGED <<timerVars, displayVars>>

(* The remove guard as steps.length > 0 *)
RemoveAllowed_nonEmpty == Len(propsSteps) > 0

(* part_000:40-47 *)
RemoveAllowed == Len(propsSteps) > 1

ClickRemove ==
    \E id \in StepIds(currentSteps) :
        /\ dragPhase = "idle"
        /\ IF RemoveAllowed
           THEN EditorCommit(Dom, <<>>, [op |-> "onRemove", arg |-> id], FALSE,
                             [type |-> "remove", id |-> id])
           ELSE EditorCommit(Dom, <<>>, NoNotification, TRUE,
                             [type |-> "remove", id |-> id])
        /\ UNCHANGED <<pendingDim, dragPhase, dragSource>>

(* part_000:181, 195 *)
ClickAdd ==
    \E type \in StepTypes :
        /\ dragPhase = "idle"
        /\ nextId <= MaxId
        /\ EditorCommit(Dom, <<>>, [op |-> "onAdd", arg |-> type], FALSE,
                        [type |-> "add", id |-> Null])
        /\ UNCHANGED <<pendingDim, dragPhase, dragSource>>

(* part_000:249-254 *)
ChangeDuration ==
    \E id \in StepIds(currentSteps), dur \in DurationChoices :
        /\ dragPhase = "idle"
        /\ EditorCommit(Dom, <<>>, [op |-> "onChangeDuration", arg |-> <<id, dur>>],
                        FALSE, [type |-> "duration", id |-> Null])
        /\ UNCHANGED <<pendingDim, dragPhase, dragSource>>

(* part_000:24, 171-173: the owner supplies a list without one of the steps *)
(* on its own account (the list is the owner's; input events of the page     *)
(* are suppressed while a drag is in progress, the owner is not).            *)
OwnerSupplies ==
    \E id \in StepIds(propsSteps) :
        /\ dragPhase \in {"idle", "dragging", "foreign"}
        /\ Len(propsSteps) > 1
        /\ LET owner == SelectSeq(propsSteps, LAMBDA st : st.id # id)
           IN  /\ propsSteps' = owner
               /\ currentSteps' = owner
               /\ indicatorClass' = Rendered(indicatorClass, owner, "none")
               /\ opacity' = Rendered(opacity, owner, "1")
        /\ notified' = NoNotification
        /\ alerted' = FALSE
        /\ localWrite' = <<>>
        /\ lastEvent' = [type |-> "supplied", id |-> Null]
        /\ UNCHANGED <<draggedItemId, dragOverItemId, indicatorElementRef,
                       pendingDim, dragPhase, dragSource, nextId>>
        /\ UNCHANGED <<timerVars, displayVars>>

(* part_000:52-71, a drag starting on the handle of a step.  The 0 ms        *)
(* callback of an earlier drag start has run by the time a new gesture       *)
(* begins.                                                                   *)
DragStart ==
    \E id \in StepIds(currentSteps) :
        /\ dragPhase = "idle"
        /\ pendingDim = {}
        /\ EditorCommit([Dom EXCEPT !.draggedItemId = id], <<>>, NoNotification,
                        FALSE, [type |-> "dragstart", id |-> Null])
        /\ pendingDim' = pendingDim \cup {id}
        /\ dragPhase' = "dragging"
        /\ dragSource' = id

(* The deferred callback without the draggedItemId test *)
DimTimeout_unguarded ==
    \E id \in pendingDim :
        /\ EditorCommit(IF id \in StepIds(currentSteps)
                        THEN [Dom EXCEPT !.opacity[id] = "0.4"] ELSE Dom,
                        <<>>, NoNotification, FALSE, [type |-> "dim", id |-> Null])
        /\ pendingDim' = pendingDim \ {id}
        /\ UNCHANGED <<dragPhase, dragSource>>

(* part_000:64-66, the deferred callback of a drag start *)
DimTimeout ==
    \E id \in pendingDim :
        /\ EditorCommit(IF draggedItemId = id /\ id \in StepIds(currentSteps)
                        THEN [Dom EXCEPT !.opacity[id] = "0.4"] ELSE Dom,
                        <<>>, NoNotification, FALSE, [type |-> "dim", id |-> Null])
        /\ pendingDim' = pendingDim \ {id}
        /\ UNCHANGED <<dragPhase, dragSource>>

(* A drag that did not start on a handle of the list (text, a file) enters. *)
ForeignDragStart ==
    /\ dragPhase = "idle"
    /\ dragPhase' = "foreign"
    /\ lastEvent' = [type |-> "foreign", id |-> Null]
    /\ notified' = NoNotification
    /\ alerted' = FALSE
    /\ localWrite' = <<>>
    /\ UNCHANGED <<propsSteps, currentSteps, draggedItemId, dragOverItemId,
                   indicatorElementRef, indicatorClass, opacity, pendingDim,
                   dragSource, nextId>>
    /\ UNCHANGED <<timerVars, displayVars>>

(* part_000:218 *)
DragEnter ==
    \E target \in StepIds(currentSteps) :
        /\ dragPhase \in {"dragging", "foreign"}
        /\ EditorCommit(handleDragEnter(target, Dom), <<>>, NoNotification, FALSE,
                        [type |-> "dragenter", id |-> target])
        /\ UNCHANGED <<pendingDim, dragPhase, dragSource>>

(* part_000:122-156 *)
Drop ==
    \E target \in StepIds(currentSteps) :
        /\ dragPhase \in {"dragging", "foreign"}
        /\ LET d1 == clearIndicator(Dom)
               sourceItemId == d1.draggedItemId
               targetItemId == parseInt(SplitDash1(ElementId(target)))
               d2 == RestoreOpacity(d1, sourceItemId)
               items == Reordered(currentSteps, sourceItemId, targetItemId)
           IN  IF DropCancelled(sourceItemId, targetItemId)
               THEN EditorCommit([d2 EXCEPT !.draggedItemId = Null], <<>>,
                                 NoNotification, FALSE,
                                 [type |-> "drop", id |-> target])
               ELSE EditorCommit([d2 EXCEPT !.draggedItemId = Null,
                                            !.dragOverItemId = Null],
                                 <<items>>, [op |-> "onReorder", arg |-> items],
                                 FALSE, [type |-> "drop", id |-> target])
        /\ dragPhase' = IF dragPhase = "dragging" THEN "dropped" ELSE "idle"
        /\ UNCHANGED <<pendingDim, dragSource>>

(* part_000:159-169, dragend on the handle the drag started from *)
DragEnd ==
    /\ dragPhase \in {"dragging", "dropped"}
    /\ LET d1 == IF dragSource \in StepIds(currentSteps)
                 THEN [Dom EXCEPT !.opacity[dragSource] = "1"] ELSE Dom
       IN  EditorCommit([clearIndicator(d1) EXCEPT !.draggedItemId = Null], <<>>,
                        NoNotification, FALSE, [type |-> "dragend", id |-> Null])
    /\ dragPhase' = "idle"
    /\ dragSource' = Null
    /\ UNCHANGED pendingDim

(* The browser ends the operation without a dragend: the source element     *)
(* left the document, or the drag was a foreign one.                         *)
DragGone ==
    /\ \/ dragPhase = "foreign"
       \/ dragPhase \in {"dragging", "dropped"} /\ dragSource \notin StepIds(currentSteps)
    /\ dragPhase' = "idle"
    /\ dragSource' = Null
    /\ lastEvent' = [type |-> "gone", id |-> Null]
    /\ notified' = NoNotification
    /\ alerted' = FALSE
    /\ localWrite' = <<>>
    /\ UNCHANGED <<propsSteps, currentSteps, draggedItemId, dragOverItemId,
                   indicatorElementRef, indicatorClass, opacity, pendingDim, nextId>>
    /\ UNCHANGED <<timerVars, displayVars>>

EditorNext ==
    \/ ClickRemove
    \/ ClickAdd
    \/ ChangeDuration
    \/ OwnerSupplies
    \/ DragStart
    \/ DimTimeout
    \/ ForeignDragStart
    \/ DragEnter
    \/ Drop
    \/ DragEnd
    \/ DragGone

-----------------------------------------------------------------------------
MaxSeconds == 700

(* Timer.tsx:26-34, part_000:32-37 *)
ComponentsInit ==
    /\ steps = initialSteps
    /\ seconds = initialSteps[1].duration
    /\ isActive = FALSE
    /\ isDone = FALSE
    /\ title = "Pomodoro Timer"
    /\ bgColor = "white"
    /\ intervalArmed = FALSE
    /\ intervalSteps = <<>>
    /\ liveIntervals = 0
    /\ mounted = TRUE
    /\ keySteps = initialSteps
    /\ keyIsActive = FALSE
    /\ keyIsDone = FALSE
    /\ threw = FALSE
    /\ lastInput = "none"
    /\ user = "interactive"
    /\ propsSteps = << [id |-> 1, type |-> "work", duration |-> 5],
                       [id |-> 2, type |-> "break", duration |-> 5] >>
    /\ currentSteps = propsSteps
    /\ draggedItemId = Null
    /\ dragOverItemId = Null
    /\ indicatorElementRef = Null
    /\ indicatorClass = [i \in 1..MaxId |-> "none"]
    /\ opacity = [i \in 1..MaxId |-> "1"]
    /\ pendingDim = {}
    /\ dragPhase = "idle"
    /\ dragSource = Null
    /\ nextId = 3
    /\ notified = NoNotification
    /\ alerted = FALSE
    /\ localWrite = <<>>
    /\ lastEvent = [type |-> "none", id |-> Null]

Init ==
    /\ ComponentsInit
    /\ dtSeconds = 0
    /\ dtText = ""

(* displayTime is given any number of seconds up to MaxSeconds. *)
DisplayInit ==
    /\ ComponentsInit
    /\ dtSeconds \in 0..MaxSeconds
    /\ dtText = ""

(* Timer.tsx:149, Timer: {displayTime(seconds)} *)
ShowTime ==
    /\ dtText = ""
    /\ dtText' = displayTime(dtSeconds)
    /\ UNCHANGED <<dtSeconds, timerVars, editorVars>>

DisplayNext == ShowTime

DisplaySpec == DisplayInit /\ [][DisplayNext]_vars

Keys == {"Space", "ArrowLeft", "ArrowRight", "ArrowUp", "KeyA"}

(* Timer.tsx:151, disabled={isDone} *)
ClickRedo ==
    /\ mounted /\ ~threw /\ user = "interactive" /\ ~isDone
    /\ Commit(handleRedo(RenderClosure, Session), "clickRedo")
    /\ UNCHANGED user

(* Timer.tsx:152, disabled={isDone} *)
ClickStartStop ==
    /\ mounted /\ ~threw /\ user = "interactive" /\ ~isDone
    /\ Commit(handleStartStop(RenderClosure, Session), "clickStartStop")
    /\ UNCHANGED user

(* Timer.tsx:153, disabled={isDone} *)
ClickSkip ==
    /\ mounted /\ ~threw /\ user = "interactive" /\ ~isDone
    /\ Commit(handleSkip(RenderClosure, Session), "clickSkip")
    /\ UNCHANGED user

(* Timer.tsx:157 *)
ClickRestart ==
    /\ mounted /\ ~threw /\ user = "interactive"
    /\ Commit(handleRestart(Session), "clickRestart")
    /\ UNCHANGED user

(* Timer.tsx:72, the registered listener *)
KeyDown ==
    /\ mounted /\ ~threw /\ user = "interactive"
    /\ \E code \in Keys : Commit(handleKeyDown(code, KeyClosure, Session), code)
    /\ UNCHANGED user

(* Timer.tsx:39-51, one firing of the interval.  The first render pass of an *)
(* expiry shows the old steps with the new isDone.                           *)
Tick ==
    /\ mounted /\ ~threw /\ liveIntervals > 0
    /\ LET n == tick(IntervalClosure, Session)
       IN  Commit([n EXCEPT !.threw = n.threw \/
                        (seconds <= 1 /\ RenderThrows([n EXCEPT !.steps = steps]))],
                  "tick")
    /\ UNCHANGED user

(* Timer.tsx:53, 73: the component unmounts; the cleanups of its effects run. *)
Unmount ==
    /\ mounted /\ ~threw /\ user = "interactive"
    /\ mounted' = FALSE
    /\ liveIntervals' = liveIntervals - (IF intervalArmed THEN 1 ELSE 0)
    /\ intervalArmed' = FALSE
    /\ intervalSteps' = <<>>
    /\ lastInput' = "unmount"
    /\ UNCHANGED <<steps, seconds, isActive, isDone, title, bgColor, keySteps,
                   keyIsActive, keyIsDone, threw, user>>
    /\ UNCHANGED <<editorVars, displayVars>>

(* The person starts the seeded session and then leaves the timer alone. *)
StartAndLetRun ==
    /\ mounted /\ ~threw /\ user = "interactive"
    /\ steps = initialSteps /\ seconds = initialSteps[1].duration
    /\ ~isActive /\ ~isDone
    /\ Commit(handleStartStop(RenderClosure, Session), "clickStartStop")
    /\ user' = "lettingRun"

(* The person starts the seeded session and from then on only presses start *)
(* again whenever the timer has paused on a step.                            *)
StartAndKeepResuming ==
    /\ mounted /\ ~threw /\ user = "interactive"
    /\ steps = initialSteps /\ seconds = initialSteps[1].duration
    /\ ~isActive /\ ~isDone
    /\ Commit(handleStartStop(RenderClosure, Session), "clickStartStop")
    /\ user' = "resuming"

Resume ==
    /\ mounted /\ ~threw /\ user = "resuming" /\ ~isDone /\ ~isActive
    /\ Commit(handleStartStop(RenderClosure, Session), "clickStartStop")
    /\ UNCHANGED user

Next ==
    \/ ClickRedo
    \/ ClickStartStop
    \/ ClickSkip
    \/ ClickRestart
    \/ KeyDown
    \/ Tick
    \/ Unmount
    \/ StartAndLetRun
    \/ StartAndKeepResuming
    \/ Resume

Spec == Init /\ [][Next]_vars

(* setInterval keeps firing while the interval is armed. *)
EditorSpec == Init /\ [][EditorNext]_vars

FairSpec == Spec /\ WF_vars(Tick) /\ WF_vars(Resume)

TypeOK ==
    /\ seconds \in 0..15
    /\ isActive \in BOOLEAN /\ isDone \in BOOLEAN
    /\ Len(steps) <= 8

-----------------------------------------------------------------------------
(* Properties of the Timer.                                                 *)

RestartInputs == {"clickRestart", "ArrowUp"}

RedoInputs == {"clickRedo", "ArrowLeft"}

SkipInputs == {"clickSkip", "ArrowRight"}

(* C1: after Restart, from whatever state it was given in, the step list is *)
(* the 8-step seed in order, remaining seconds is the first seed step's      *)
(* duration (15), the running flag is false and isDone is false.             *)
C1_RestartYieldsSeed ==
    lastInput \in RestartInputs =>
        /\ steps = initialSteps
        /\ seconds = 15
        /\ ~isActive
        /\ ~isDone

(* Restart given on the last step (the ambient colour of the long break is  *)
(* still showing), seven steps having been consumed.                         *)
C1_Witness ==
    /\ lastInput \in RestartInputs
    /\ bgColor = "blue"
    /\ steps = initialSteps /\ seconds = 15

(* C2 as stated: after one start of the seeded session, with only ticks      *)
(* following, the session eventually is Done with remaining time 0.          *)
C2_SingleStartRunsToDone ==
    (user = "lettingRun") ~> (isDone /\ seconds = 0)

(* C2 amended: when start is pressed again each time the timer has paused    *)
(* on the next step (and nothing but ticks happens otherwise), the steps are *)
(* consumed one by one from the front, in seed order, and the session        *)
(* eventually is Done with remaining time 0 and no step left.                *)
C2_ResumedRunReachesDone ==
    /\ [][(user' = "resuming" /\ steps' # steps) => steps' = Tail(steps)]_vars
    /\ (user = "resuming") ~> (isDone /\ seconds = 0 /\ steps = <<>>)

C2_Witness ==
    /\ user = "resuming"
    /\ isDone /\ seconds = 0 /\ steps = <<>>
    /\ lastInput = "tick"

(* C3: in a non-Done state Redo sets remaining seconds to the full duration  *)
(* of the current step, leaves the step list unchanged and clears the        *)
(* running flag; a Redo directly after a Redo changes nothing.               *)
C3_RedoResetsCurrentStep ==
    [][(lastInput' \in RedoInputs /\ ~isDone) =>
            /\ seconds' = steps[1].duration
            /\ steps' = steps
            /\ ~isActive'
            /\ ~isDone'
            /\ ~intervalArmed'
            /\ (lastInput \in RedoInputs => sessionVars' = sessionVars)]_vars

(* Redo on a later step. *)
C3_Witness ==
    /\ lastInput \in RedoInputs
    /\ ~isDone
    /\ Len(steps) = 5
    /\ seconds = steps[1].duration
    /\ title = "Start short break"

LastStepAdvance ==
    /\ Len(steps) = 1 /\ ~isDone
    /\ \/ lastInput' \in SkipInputs
       \/ lastInput' = "tick" /\ seconds <= 1

(* C4: with exactly one step left, Skip and natural expiry go to Done: the   *)
(* list becomes empty, remaining seconds 0, isDone true, the running flag    *)
(* false, and neither the transition nor anything after it reads a step that *)
(* does not exist.                                                           *)
C4_LastStepGoesToDone ==
    [][/\ LastStepAdvance =>
            /\ steps' = <<>>
            /\ seconds' = 0
            /\ isDone'
            /\ ~isActive'
            /\ ~threw'
       /\ isDone => ~threw']_vars

C4_Witness ==
    /\ lastInput \in SkipInputs
    /\ isDone /\ steps = <<>> /\ seconds = 0
    /\ ~threw

(* C5: isDone holds exactly when the step list is empty, and then remaining  *)
(* seconds is 0.                                                             *)
C5_DoneIffExhausted ==
    /\ isDone => (steps = <<>> /\ seconds = 0)
    /\ steps = <<>> => isDone

(* Done reached by the last tick of the last step. *)
C5_Witness ==
    /\ isDone
    /\ lastInput = "tick"
    /\ title = "All done"

GatedKeys == {"Space", "ArrowLeft", "ArrowRight"}

(* C10: outside Done, Space toggles the running flag, ArrowLeft is Redo and  *)
(* ArrowRight is Skip; in Done these three keys leave the session as it is;  *)
(* ArrowUp is Restart in every state; and the values the key handler works   *)
(* from are those of the current session.                                    *)
C10_KeysGatedByDone ==
    [][/\ (lastInput' = "Space" /\ ~isDone) =>
            /\ isActive' = ~isActive
            /\ UNCHANGED <<steps, seconds, isDone, title, bgColor>>
       /\ (lastInput' = "ArrowLeft" /\ ~isDone) =>
            /\ seconds' = steps[1].duration
            /\ ~isActive'
            /\ UNCHANGED <<steps, isDone>>
       /\ (lastInput' = "ArrowRight" /\ ~isDone) =>
            /\ steps' = Tail(steps)
            /\ ~isActive'
            /\ isDone' = (Len(steps) = 1)
            /\ seconds' = IF Len(steps) = 1 THEN 0 ELSE steps[2].duration
       /\ (lastInput' \in GatedKeys /\ isDone) => UNCHANGED sessionVars
       /\ lastInput' = "ArrowUp" =>
            /\ steps' = initialSteps
            /\ seconds' = 15
            /\ ~isActive'
            /\ ~isDone'
       /\ lastInput' \in Keys =>
            /\ keyIsDone = isDone
            /\ keyIsActive = isActive
            /\ keySteps = steps]_vars

(* A gated key pressed in Done. *)
C10_Witness ==
    /\ isDone
    /\ lastInput \in GatedKeys

-----------------------------------------------------------------------------
(* Properties of the step-list editor.                                      *)

Without(list, id) == SelectSeq(list, LAMBDA st : st.id # id)

StepSet(list) == {list[i] : i \in 1..Len(list)}

IdsOf(list) == [i \in 1..Len(list) |-> list[i].id]

NoIndicatorShown == \A i \in 1..MaxId : indicatorClass[i] = "none"

(* C6: a drop of a step of the list onto another step of the list gives a    *)
(* list of the same length with the same steps, the source at the index the  *)
(* target had, and the other steps in their former relative order.           *)
C6_DropMovesSourceToTargetIndex ==
    [][(/\ lastEvent'.type = "drop"
        /\ draggedItemId \in StepIds(currentSteps)
        /\ lastEvent'.id \in StepIds(currentSteps)
        /\ draggedItemId # lastEvent'.id) =>
            /\ Len(currentSteps') = Len(currentSteps)
            /\ StepSet(currentSteps') = StepSet(currentSteps)
            /\ currentSteps'[findIndex(currentSteps, lastEvent'.id) + 1].id = draggedItemId
            /\ Without(currentSteps', draggedItemId) = Without(currentSteps, draggedItemId)
            /\ notified' = [op |-> "onReorder", arg |-> currentSteps']]_vars

(* The first of three steps dropped onto the last. *)
C6_Witness ==
    /\ lastEvent = [type |-> "drop", id |-> 3]
    /\ notified.op = "onReorder"
    /\ IdsOf(currentSteps) = <<2, 3, 1>>

(* C7: a drop of a step onto itself leaves the list as it is, calls no       *)
(* onReorder and clears the dragged id.                                      *)
C7_DropOnSelfIsNoOp ==
    [][(lastEvent'.type = "drop" /\ draggedItemId = lastEvent'.id) =>
            /\ currentSteps' = currentSteps
            /\ propsSteps' = propsSteps
            /\ notified' = NoNotification
            /\ draggedItemId' = Null]_vars

C7_Witness ==
    /\ lastEvent.type = "drop"
    /\ lastEvent.id = dragSource
    /\ dragPhase = "dropped"
    /\ notified = NoNotification
    /\ draggedItemId = Null

(* C8: a remove request on a list of one step is rejected (no onRemove, the  *)
(* list as it was, the warning raised), a request on a longer list is        *)
(* forwarded as onRemove(id); the list never becomes empty.                  *)
C8_LastStepNotRemoved ==
    /\ [][lastEvent'.type = "remove" =>
            IF Len(propsSteps) = 1
            THEN /\ notified' = NoNotification
                 /\ alerted'
                 /\ propsSteps' = propsSteps
                 /\ currentSteps' = currentSteps
            ELSE /\ notified' = [op |-> "onRemove", arg |-> lastEvent'.id]
                 /\ ~alerted'
                 /\ propsSteps' = Without(propsSteps, lastEvent'.id)]_vars
    /\ [](Len(currentSteps) >= 1 /\ Len(propsSteps) >= 1)

(* The rejected request. *)
C8_Witness ==
    /\ lastEvent.type = "remove"
    /\ alerted
    /\ Len(currentSteps) = 1
    /\ notified = NoNotification

(* C9: a drop whose source or target is not a step of the current list (no   *)
(* dragged id, or an id no longer in the list) is cancelled: the list is not *)
(* changed, onReorder is not called and no indicator is left.                *)
C9_UnresolvedDropCancelled ==
    [][(/\ lastEvent'.type = "drop"
        /\ \/ draggedItemId = Null
           \/ draggedItemId \notin StepIds(currentSteps)
           \/ lastEvent'.id \notin StepIds(currentSteps)) =>
            /\ currentSteps' = currentSteps
            /\ propsSteps' = propsSteps
            /\ notified' = NoNotification
            /\ NoIndicatorShown']_vars

-----------------------------------------------------------------------------
(* Further properties of the Timer.                                         *)

Advance ==
    \/ lastInput' \in SkipInputs
    \/ lastInput' = "tick" /\ seconds <= 1

(* C11: at most one interval is live, and only while the running flag is     *)
(* true and the component mounted; every transition that clears the running  *)
(* flag, and unmounting, leave no interval; a tick is only ever applied to a *)
(* Running session.                                                          *)
C11_SingleIntervalOnlyWhileRunning ==
    /\ [](/\ liveIntervals <= 1
          /\ liveIntervals > 0 => (isActive /\ mounted)
          /\ intervalArmed <=> liveIntervals = 1)
    /\ [][((isActive /\ ~isActive') \/ ~mounted') => liveIntervals' = 0]_vars
    /\ [][lastInput' = "tick" => isActive]_vars

(* Unmounted in the middle of a running step. *)
C11_Witness ==
    /\ ~mounted
    /\ isActive
    /\ liveIntervals = 0
    /\ seconds < steps[1].duration

(* C12: with at least two steps left, an advance (the tick at one second     *)
(* left, or Skip) removes exactly the front step and sets remaining seconds  *)
(* to the full duration of the new front step; remaining seconds is never 0  *)
(* while a step is current.                                                  *)
C12_AdvanceMakesNextStepCurrent ==
    /\ [][(Len(steps) >= 2 /\ Advance) =>
            /\ steps' = Tail(steps)
            /\ seconds' = steps[2].duration
            /\ ~isDone']_vars
    /\ [](steps # <<>> => seconds # 0)

(* The first step ran out. *)
C12_Witness ==
    /\ lastInput = "tick"
    /\ Len(steps) = 7
    /\ seconds = 3
    /\ title = "Start short break"

(* C14: a tick of a Running session with more than one second left takes     *)
(* exactly one second off, leaves the step list, the running flag and isDone *)
(* alone and sets the label to the new remaining time as mm:ss, " - " and    *)
(* the name of the step that is current at that tick.                        *)
C14_TickDecrementsAndLabels ==
    [][(lastInput' = "tick" /\ isActive /\ seconds > 1) =>
            /\ seconds' = seconds - 1
            /\ UNCHANGED <<steps, isActive, isDone>>
            /\ title' = displayTime(seconds - 1) \o " - " \o steps[1].name]_vars

(* A tick on the second step. *)
C14_Witness ==
    /\ lastInput = "tick"
    /\ Len(steps) = 7
    /\ seconds = 2
    /\ title = "00:02 - short break"

StepColour(list) ==
    IF list = <<>> THEN "white"
    ELSE IF list[1].name = "work" THEN "red"
    ELSE IF list[1].name = "short break" THEN "lightblue"
    ELSE IF list[1].name = "long break" THEN "blue"
    ELSE "white"

(* C15: the ambient background colour is always the one of the current step  *)
(* (red, lightblue, blue; white when none is left), the initial state and    *)
(* the state after Restart included.                                         *)
C15_BgColourFollowsCurrentStep == bgColor = StepColour(steps)

(* C19: every advance of a non-Done session leaves the running flag false    *)
(* and no interval live, so the step that became current is not counted      *)
(* down before a further start.                                              *)
C19_AdvanceLeavesPaused ==
    [][(~isDone /\ Advance) =>
            /\ steps' = Tail(steps)
            /\ ~isActive'
            /\ ~intervalArmed'
            /\ liveIntervals' = 0]_vars

(* The timer paused on a work step after a break ran out. *)
C19_Witness ==
    /\ lastInput = "tick"
    /\ ~isActive /\ ~isDone
    /\ Len(steps) = 4
    /\ title = "Start work"
    /\ liveIntervals = 0

(* C20: while not Done there is a current step and remaining seconds lies    *)
(* between 1 and that step's duration; a mounted Running session always has  *)
(* its interval; the render never reads a missing step.                      *)
C20_NonDoneSessionHasTimeLeft ==
    /\ ~isDone => (steps # <<>> /\ seconds >= 1 /\ seconds <= steps[1].duration)
    /\ (isActive /\ mounted) => (intervalArmed /\ liveIntervals = 1)
    /\ ~threw

(* Resumed with one second left. *)
C20_Witness ==
    /\ lastInput = "clickStartStop"
    /\ isActive
    /\ seconds = 1
    /\ liveIntervals = 1

-----------------------------------------------------------------------------
(* Property of displayTime.                                                 *)

Pad2(n) == Digit(n \div 10) \o Digit(n % 10)

MinutesSeconds(s) ==
    (IF s < 600 THEN Pad2(s \div 60) ELSE NumStr(s \div 60)) \o ":" \o Pad2(s % 60)

(* C13: for every number of seconds s up to MaxSeconds, displayTime(s) is    *)
(* the minutes (two digits when s < 600, as many as it takes otherwise), a   *)
(* colon and the seconds of the minute in two digits; 65 gives "01:05", 5    *)
(* gives "00:05" and 0 gives "00:00".                                        *)
C13_DisplayTimeIsMinutesSeconds ==
    dtText # "" =>
        /\ dtText = MinutesSeconds(dtSeconds)
        /\ dtSeconds = 65 => dtText = "01:05"
        /\ dtSeconds = 5 => dtText = "00:05"
        /\ dtSeconds = 0 => dtText = "00:00"

C13_Witness ==
    /\ dtSeconds = 65
    /\ dtText = "01:05"

-----------------------------------------------------------------------------
(* Further properties of the step-list editor.                              *)

IndicatedSteps == {i \in 1..MaxId : indicatorClass[i] # "none"}

NormalOpacity == \A i \in 1..MaxId : opacity[i] = "1"

(* C16: at most one step carries an insertion indicator; after a drag-enter  *)
(* it is the entered step and no other, and when the indicator is placed on  *)
(* a newly entered step it is 'below' if the source's index is less than     *)
(* the target's and 'above' otherwise.                                       *)
C16_SingleIndicatorOnEnteredStep ==
    /\ [](Cardinality(IndicatedSteps) <= 1)
    /\ [][lastEvent'.type = "dragenter" =>
            /\ IndicatedSteps' = {lastEvent'.id}
            /\ (lastEvent'.id # dragOverItemId
                    /\ draggedItemId \in StepIds(currentSteps)) =>
                  indicatorClass'[lastEvent'.id] =
                      IF findIndex(currentSteps, draggedItemId)
                            < findIndex(currentSteps, lastEvent'.id)
                      THEN "dragBelowIndicator"
                      ELSE "dragAboveIndicator"]_vars

(* The last of three steps dragged over an earlier one. *)
C16_Witness ==
    /\ lastEvent.type = "dragenter"
    /\ dragPhase = "dragging"
    /\ draggedItemId = 3
    /\ IdsOf(currentSteps) = <<1, 2, 3>>
    /\ indicatorClass[lastEvent.id] = "dragAboveIndicator"
    /\ IndicatedSteps = {lastEvent.id}

C18_LocalListMirrorsOwner ==
    /\ [](currentSteps = propsSteps)
    /\ [](notified.op = "onReorder" => localWrite = <<notified.arg>>)
    /\ [][propsSteps' # propsSteps => currentSteps' = propsSteps']_vars

(* A reorder after an add and a duration change. *)
C18_Witness ==
    /\ lastEvent.type = "drop"
    /\ notified.op = "onReorder"
    /\ localWrite = <<currentSteps>>
    /\ currentSteps = propsSteps
    /\ Len(currentSteps) = 3
    /\ \E i \in 1..3 : currentSteps[i].id = 1 /\ currentSteps[i].duration = 10
====
